---- MODULE Spec2Model ----
(***************************************************************************)
(* Request/response coordination over a request table of the shared SQLite *)
(* database: the client side (MenuCoordinator in quick_menu.py, whose poll *)
(* loop is the one of SceneHierarchyExporter in scene_hierarchy.py), the   *)
(* retention sweep (DatabaseCleaner.clean_old_data in quick_clean.py) and  *)
(* the external executor (the Unity Editor) that claims and resolves rows. *)
(*                                                                         *)
(* The table has the columns of menu_item_requests.  Its status column     *)
(* ranges over the whole status vocabulary of the repository's request     *)
(* tables (the CHECK list of db_update_status_constraint.py); the CHECK    *)
(* list of add_menu_table.py is that list without processing, executing,   *)
(* finalizing and timeout.                                                 *)
(*                                                                         *)
(* Time is counted in ticks of half a second, the length of the sleep of   *)
(* the poll loop; SQLite's CURRENT_TIMESTAMP has a resolution of a second. *)
(*                                                                         *)
(* Spec is one request with its clients, its executor and the sweep.       *)
(* QueueSpec is the same table with several requests and their listing     *)
(* (get_pending_requests).  MaintSpec is the table test_requests under     *)
(* clean_old_data, update_status_constraint (db_update_status_constraint   *)
(* .py) and the migrations of run_maintenance (db_auto_maintenance.py),    *)
(* with the calendar counted in days.  CliSpec is the main functions of    *)
(* quick_menu.py, quick_test.py and scene_hierarchy.py: argument checks,   *)
(* the submit, the wait and the exit code.  FaultSpec is the request of    *)
(* Spec with a store whose statements can raise and an operator who can    *)
(* interrupt a wait.  ConcSpec is submit_menu_request run by several       *)
(* processes at once.  MigrateSpec is run_maintenance step by step: the    *)
(* table schema_version, one transaction per migration, the return value.  *)
(* ResultSpec is test_requests with the rows of test_results under         *)
(* clean_old_data.  LogSpec and TailSpec are the Editor.log monitor        *)
(* (editor_log_monitor.py): LogSpec with whole lines and a clock, TailSpec *)
(* with lines written in two pieces and a file that is replaced.           *)
(* LiveLogSpec is monitor_live of monitor_editmode_logs.py, ReportSpec the *)
(* failed command of test_results.py.                                      *)
(***************************************************************************)
EXTENDS Integers, Sequences, FiniteSets, TLC

\* ------------------------------------------------------------------ bounds
MaxId == 1
MaxTime == 3
MaxTimeout == 1
\* rows of menu_item_requests in the specification of the pending queue
MaxQueue == 2
\* test_requests: the largest id, the number of submits, the last day
MaxTestId == 2
MaxIssued == 3
MaxDay == 8
\* rows the runs of one command line script insert
MaxInserted == 2
\* processes that submit side by side
MaxProcs == 2
\* seconds of the clock of CURRENT_TIMESTAMP
MaxStamp == 1
\* rows the executor writes to test_results
MaxResults == 1

\* test_results.py failed: result files examined, test cases in a file
MaxFiles == 2
MaxTests == 2

\* monitor_editmode_logs.py: lines the Editor appends to the session file
MaxLines == 4

\* editor_log_monitor.py: pieces written to Editor.log, replacements of
\* the file, the last instant of the clock (in ticks)
MaxLog == 3
MaxGen == 1
MaxClock == 172816

\* --------------------------------------------------------------- constants
TicksPerSecond == 2
PollInterval == 1
\* apply_migration_v3 keeps the test requests of the last 7 days
RetentionDays == 7
Null == -1

Ids == 1..MaxId
MenuPaths == {"", "Edit/Play"}
Priorities == {0, 5}
Timeouts == 0..MaxTimeout
QueueIds == 1..MaxQueue
\* keep_hours of clean_old_data, here in seconds
KeepValues == {0, 1}
\* keep_hours of clean_old_data, here in days
KeepDays == {0, 1}
TestIds == 1..(MaxTestId + 1)

\* the status vocabulary of the request tables
StatusValues ==
  {"pending", "processing", "executing", "finalizing",
   "completed", "failed", "timeout", "cancelled", "running"}
\* the terminal set of the protocol
TerminalSet == {"completed", "failed", "cancelled", "timeout"}
\* the statuses only the executor writes when it resolves a row
ExecutorTerminal == {"completed", "failed", "timeout"}
\* the statuses the executor gives a row it claims
ClaimStatuses == {"running", "processing"}

VARIABLES
  rows,       \* the request table: id -> row, for the ids present
  seq,        \* sqlite_sequence of the AUTOINCREMENT id
  now,        \* the wall clock, in ticks
  w_pc,       \* wait_for_completion: "idle", "loop", "sleep", "done", "exited"
  w_id,       \* request_id of the wait
  w_timeout,  \* timeout of the wait, in seconds
  w_start,    \* start_time
  w_from,     \* the time the current sleep began
  w_read,     \* what the last poll read: "none", "absent" or a status
  w_prev,     \* what the poll before it read
  w_polls,    \* number of get_request_status calls of the wait
  w_sleeps,   \* number of time.sleep calls of the wait
  w_result,   \* the returned value, "none" until the wait returns
  w_row0,     \* the stored status when the wait was called, or "absent"
  w_late,     \* TRUE once a read took time or a sleep overran
  w_end,      \* the time the wait returned
  w_rowEnd,   \* the stored status when the wait returned, or "absent"
  lastOp,     \* the client call made by the last step, if any
  prevOp,     \* the client call made by the step before it, if any
  claimed,    \* ids the executor has written to
  skipped,    \* ids the executor resolved straight from pending
  cancelled,  \* ids for which cancel_request returned True
  listed,     \* what the last step's get_pending_requests returned
  t_rows,     \* the table test_requests: id -> row, for the ids present
  t_seq,      \* sqlite_sequence of test_requests
  t_issued,   \* the ids submit has returned for test_requests, in order
  t_purged,   \* the statuses of the rows the last retention step deleted
  t_check,    \* TRUE once the status CHECK of test_requests has the new list
  t_version,  \* the newest version in schema_version, 0 without the table
  day,        \* the calendar, in days
  c_pc,       \* a command line run: "none", "submitted", "waited", "exited"
  c_kind,     \* its script: "menu", "test" or "hierarchy"
  c_args,     \* its parsed arguments
  c_count,    \* script -> number of rows its runs have inserted
  c_final,    \* what its wait_for_completion returned, "none" before
  c_exit,     \* its exit code, Null while it runs
  s_pc,       \* process -> where its submit is: "idle", "inserted", "committed"
  s_row,      \* process -> the row of its INSERT, kept to its return
  s_last,     \* process -> cursor.lastrowid of its INSERT
  s_calls,    \* the submits that have returned: process, id and arguments
  m_schema,   \* the table schema_version: version -> applied_at
  m_clock,    \* CURRENT_TIMESTAMP, in seconds
  m_pc,       \* run_maintenance: "idle", "loop" or "finish"
  m_cur,      \* current_version of the run
  m_v,        \* the version the loop of the run is at
  m_log,      \* the versions the run has called the migration of, in order
  m_idx,      \* number of indexes of apply_migration_v4 in the database
  m_ret,      \* what the last run returned, "none" while it runs
  m_op,       \* the maintenance step made by the last step, if any
  c_check,    \* what the compilation check of the run came to, "none" without
  r_rows,     \* the table test_results: the set of its rows
  r_seq,      \* sqlite_sequence of test_results
  f_log,      \* Editor.log: what the Editor has written, piece by piece
  f_gen,      \* the number of times Editor.log was replaced
  l_pc,       \* process_new_content: "idle", or "read" after the size check
  l_size,     \* current_size of the call
  l_pos,      \* last_position
  l_seen,     \* seen_errors
  l_batch,    \* current_batch_id, Null for None
  l_last,     \* last_error_time, Null for None
  l_now,      \* the wall clock of the monitor, in seconds
  e_rows,     \* the table compilation_errors, in the order of the inserts
  l_hits,     \* the lines the monitor took for compilation errors, in order
  l_gen,      \* the file that the last stat of the monitor saw
  v_len,      \* the session file of the EditMode logs: its number of lines
  v_pc,       \* monitor_live: "idle", or "read" after get_session_files
  v_size,     \* current_size of the pass
  v_last,     \* last_size of the session
  v_shown,    \* line -> number of times monitor_live has printed it
  x_files,    \* the result files the failed command examined
  x_report    \* the lines it printed for them: file and test

vars == <<rows, seq, now, w_pc, w_id, w_timeout, w_start, w_from, w_read,
          w_prev, w_polls, w_sleeps, w_result, w_row0, w_late, w_end,
          w_rowEnd, lastOp,
          prevOp, claimed, skipped, cancelled, listed,
          t_rows, t_seq, t_issued, t_purged, t_check, t_version, day,
          c_pc, c_kind, c_args, c_count, c_final, c_exit,
          s_pc, s_row, s_last, s_calls,
          m_schema, m_clock, m_pc, m_cur, m_v, m_log, m_idx, m_ret, m_op,
          c_check, r_rows, r_seq,
          f_log, f_gen, l_pc, l_size, l_pos, l_seen, l_batch, l_last, l_now,
          e_rows, l_hits, l_gen,
          v_len, v_pc, v_size, v_last, v_shown,
          x_files, x_report>>

waitVars == <<w_pc, w_id, w_timeout, w_start, w_from, w_read, w_prev,
              w_polls, w_sleeps, w_result, w_row0, w_late, w_end, w_rowEnd>>
histVars == <<claimed, skipped, cancelled>>
\* the table test_requests and its retention
maintVars == <<t_rows, t_seq, t_issued, t_purged, t_check, t_version, day,
              r_rows, r_seq>>
\* a run of one of the command line scripts
cliVars == <<c_pc, c_kind, c_args, c_count, c_final, c_exit, c_check>>
\* submits of several processes on one table
concVars == <<s_pc, s_row, s_last, s_calls>>
\* a run of run_maintenance and the table schema_version
migVars == <<m_schema, m_clock, m_pc, m_cur, m_v, m_log, m_idx, m_ret>>
\* Editor.log and its monitor
logVars == <<f_log, f_gen, l_pc, l_size, l_pos, l_seen, l_batch, l_last,
             l_now, e_rows, l_hits, l_gen>>
\* the session file of the EditMode logs and its live monitor
liveVars == <<v_len, v_pc, v_size, v_last, v_shown>>
\* a run of test_results.py failed
repVars == <<x_files, x_report>>
\* the logs, their monitors and the report
otherVars == <<logVars, liveVars, repVars>>
\* the table menu_item_requests, its clients and its executor
coordVars == <<rows, seq, now, waitVars, lastOp, prevOp, histVars, listed>>

\* ----------------------------------------------------------------- helpers
NowSeconds == now \div TicksPerSecond

NoOp == [op |-> "none", id |-> 0, ok |-> FALSE, pre |-> "none", snap |-> {}]

\* the command line scripts that submit a request
Kinds == {"menu", "test", "hierarchy"}
\* no command line parsed
NoArgs == [cmd |-> "none", target |-> "", wait |-> FALSE]
\* the processes that submit side by side
Procs == 1..MaxProcs
\* no maintenance step
NoMaintOp == [op |-> "none", v |-> 0, ok |-> FALSE]

CeilDiv(a, b) == (a + b - 1) \div b

\* the call before this one, kept when it was a submit or a cancel of the
\* same request made by the step just before
Before(id) ==
  IF lastOp.op \in {"submit", "cancel"} /\ lastOp.id = id
  THEN lastOp ELSE NoOp

StatusOf(t, id) == IF id \in DOMAIN t THEN t[id].status ELSE "absent"

\* fetchone() of SELECT ... WHERE id = ?: the row or None
SelectById(t, id) == IF id \in DOMAIN t THEN {t[id]} ELSE {}

\* InsertRow leaving the priority at the column default
InsertRowDefaultPriority(t, id, path, prio) ==
  [i \in DOMAIN t \cup {id} |->
     IF i = id
     THEN [id |-> id, menu_path |-> path, priority |-> 0,
           status |-> "pending", created_at |-> NowSeconds,
           started_at |-> Null, completed_at |-> Null]
     ELSE t[i]]

\* INSERT INTO menu_item_requests (menu_path, priority) VALUES (?, ?)
InsertRow(t, id, path, prio) ==
  [i \in DOMAIN t \cup {id} |->
     IF i = id
     THEN [id |-> id, menu_path |-> path, priority |-> prio,
           status |-> "pending", created_at |-> NowSeconds,
           started_at |-> Null, completed_at |-> Null]
     ELSE t[i]]

\* CancelUpdate without the status condition of its WHERE clause
CancelUpdateAnyStatus(t, id) ==
  [i \in DOMAIN t |->
     IF i = id THEN [t[i] EXCEPT !.status = "cancelled"] ELSE t[i]]

\* CancelUpdate that also stamps the row's completion time
CancelUpdateStamped(t, id) ==
  [i \in DOMAIN t |->
     IF i = id /\ t[i].status = "pending"
     THEN [t[i] EXCEPT !.status = "cancelled", !.completed_at = NowSeconds]
     ELSE t[i]]

\* UPDATE ... SET status = 'cancelled' WHERE id = ? AND status = 'pending'
CancelUpdate(t, id) ==
  [i \in DOMAIN t |->
     IF i = id /\ t[i].status = "pending"
     THEN [t[i] EXCEPT !.status = "cancelled"]
     ELSE t[i]]

\* CancelRowcount counting every row of the id, whatever its status
CancelRowcountAnyStatus(t, id) ==
  Cardinality({i \in DOMAIN t : i = id})

\* cursor.rowcount of that UPDATE
CancelRowcount(t, id) ==
  Cardinality({i \in DOMAIN t : i = id /\ t[i].status = "pending"})

\* the statuses at which wait_for_completion returns the stored status
WaitTerminal == {"completed", "failed", "cancelled"}

\* DELETE FROM menu_item_requests WHERE created_at < ? AND status IN (...)
CleanDeletes(t, cutoff) ==
  {i \in DOMAIN t : t[i].created_at < cutoff
                    /\ t[i].status \in {"completed", "failed", "cancelled"}}

Init ==
  /\ rows = << >>
  /\ seq = 0
  /\ now = 0
  /\ w_pc = "idle"
  /\ w_id = 0
  /\ w_timeout = 0
  /\ w_start = 0
  /\ w_from = 0
  /\ w_read = "none"
  /\ w_prev = "none"
  /\ w_polls = 0
  /\ w_sleeps = 0
  /\ w_result = "none"
  /\ w_row0 = "none"
  /\ w_late = FALSE
  /\ w_end = 0
  /\ w_rowEnd = "none"
  /\ lastOp = NoOp
  /\ prevOp = NoOp
  /\ claimed = {}
  /\ skipped = {}
  /\ cancelled = {}
  /\ listed = << >>
  /\ t_rows = << >>
  /\ t_seq = 0
  /\ t_issued = << >>
  /\ t_purged = {}
  /\ t_check = FALSE
  /\ t_version = 0
  /\ day = 0
  /\ c_pc = "none"
  /\ c_kind = "none"
  /\ c_args = NoArgs
  /\ c_count = [k \in Kinds |-> 0]
  /\ c_final = "none"
  /\ c_exit = Null
  /\ s_pc = [p \in Procs |-> "idle"]
  /\ s_row = [p \in Procs |-> {}]
  /\ s_last = [p \in Procs |-> 0]
  /\ s_calls = << >>
  /\ m_schema = << >>
  /\ m_clock = 0
  /\ m_pc = "idle"
  /\ m_cur = 0
  /\ m_v = 0
  /\ m_log = << >>
  /\ m_idx = 0
  /\ m_ret = "none"
  /\ m_op = NoMaintOp
  /\ c_check = "none"
  /\ r_rows = {}
  /\ r_seq = 0
  /\ f_log = << >>
  /\ f_gen = 0
  /\ l_pc = "idle"
  /\ l_size = 0
  /\ l_pos = 0
  /\ l_seen = {}
  /\ l_batch = Null
  /\ l_last = Null
  /\ l_now = 0
  /\ e_rows = << >>
  /\ l_hits = << >>
  /\ l_gen = 0
  /\ v_len = 0
  /\ v_pc = "idle"
  /\ v_size = 0
  /\ v_last = 0
  /\ v_shown = << >>
  /\ x_files = << >>
  /\ x_report = << >>

\* ------------------------------------------------------------ client calls
\* MenuCoordinator.submit_menu_request
Submit(path, prio) ==
  /\ seq < MaxId
  /\ rows' = InsertRow(rows, seq + 1, path, prio)
  /\ seq' = seq + 1
  /\ lastOp' = [op |-> "submit", id |-> seq + 1, ok |-> TRUE,
                pre |-> "absent",
                snap |-> {[menu_path |-> path, priority |-> prio]}]
  /\ prevOp' = NoOp
  /\ listed' = << >>
  /\ UNCHANGED <<maintVars, cliVars,
                 concVars, migVars, otherVars, m_op>>
  /\ UNCHANGED <<now, waitVars, histVars>>

\* MenuCoordinator.get_request_status
GetStatus(id) ==
  /\ lastOp' = [op |-> "status", id |-> id, ok |-> id \in DOMAIN rows,
                pre |-> StatusOf(rows, id), snap |-> SelectById(rows, id)]
  /\ prevOp' = Before(id)
  /\ listed' = << >>
  /\ UNCHANGED <<maintVars, cliVars,
                 concVars, migVars, otherVars, m_op>>
  /\ UNCHANGED <<rows, seq, now, waitVars, histVars>>

\* MenuCoordinator.cancel_request
Cancel(id) ==
  /\ rows' = CancelUpdate(rows, id)
  /\ lastOp' = [op |-> "cancel", id |-> id,
                ok |-> CancelRowcount(rows, id) > 0,
                pre |-> StatusOf(rows, id), snap |-> {}]
  /\ prevOp' = Before(id)
  /\ listed' = << >>
  /\ UNCHANGED <<maintVars, cliVars,
                 concVars, migVars, otherVars, m_op>>
  /\ cancelled' = IF CancelRowcount(rows, id) > 0
                  THEN cancelled \cup {id} ELSE cancelled
  /\ UNCHANGED <<seq, now, waitVars, claimed, skipped>>

\* PendingIds taking every row that is not yet resolved for a pending one
PendingIdsUnresolved(t) == {i \in DOMAIN t : t[i].status \notin TerminalSet}

\* WHERE status = 'pending'
PendingIds(t) == {i \in DOMAIN t : t[i].status = "pending"}

\* ORDER BY priority DESC, created_at ASC: row a may be returned before row b
KeyOrder(a, b) ==
  \/ a.priority > b.priority
  \/ a.priority = b.priority /\ a.created_at <= b.created_at

\* the orders in which the statement may return the rows ids: the ORDER BY
\* terms decide, and rows equal in both come in any order
Orderings(t, ids) ==
  {s \in [1..Cardinality(ids) -> ids] :
     \A i, j \in DOMAIN s :
        i < j => s[i] # s[j] /\ KeyOrder(t[s[i]], t[s[j]])}

\* SELECT id, menu_path, priority, created_at
SelectColumns(r) ==
  [id |-> r.id, menu_path |-> r.menu_path, priority |-> r.priority,
   created_at |-> r.created_at]

\* ListPending taking the rows it returns off the queue
ListPendingDequeues ==
  /\ \E s \in Orderings(rows, PendingIds(rows)) :
        listed' = [k \in DOMAIN s |-> SelectColumns(rows[s[k]])]
  /\ rows' = [i \in DOMAIN rows |->
                IF i \in PendingIds(rows)
                THEN [rows[i] EXCEPT !.status = "processing"]
                ELSE rows[i]]
  /\ lastOp' = [op |-> "list", id |-> 0, ok |-> TRUE, pre |-> "none",
                snap |-> {}]
  /\ prevOp' = NoOp
  /\ UNCHANGED <<seq, now, waitVars, histVars, maintVars, cliVars,
                 concVars, migVars, otherVars, m_op>>

\* MenuCoordinator.get_pending_requests
ListPending ==
  /\ \E s \in Orderings(rows, PendingIds(rows)) :
        listed' = [k \in DOMAIN s |-> SelectColumns(rows[s[k]])]
  /\ lastOp' = [op |-> "list", id |-> 0, ok |-> TRUE, pre |-> "none",
                snap |-> {}]
  /\ prevOp' = NoOp
  /\ UNCHANGED <<rows, seq, now, waitVars, histVars, maintVars, cliVars,
                 concVars, migVars, otherVars, m_op>>

\* ---------------------------------------------------- wait_for_completion
\* the call: start_time = time.time()
WaitStart(id, timeout) ==
  /\ w_pc = "idle"
  /\ now + timeout * TicksPerSecond <= MaxTime
  /\ w_pc' = "loop"
  /\ w_id' = id
  /\ w_timeout' = timeout
  /\ w_start' = now
  /\ w_row0' = StatusOf(rows, id)
  /\ lastOp' = NoOp
  /\ prevOp' = NoOp
  /\ listed' = << >>
  /\ UNCHANGED <<maintVars, cliVars,
                 concVars, migVars, otherVars, m_op>>
  /\ UNCHANGED <<rows, seq, now, w_from, w_read, w_prev, w_polls, w_sleeps,
                 w_result, w_late, w_end, w_rowEnd, histVars>>

\* WithinBudget as a loop that never looks at the clock
WithinBudgetAlways(start, timeout) == TRUE

\* the loop condition: time.time() - start_time < timeout
WithinBudget(start, timeout) == now - start < timeout * TicksPerSecond

\* PollOutcome without the test for a missing row
PollOutcomeNoMissingCheck(snap) ==
  IF snap = {} THEN "sleep"
  ELSE LET row == CHOOSE r \in snap : TRUE
       IN IF row.status \in WaitTerminal THEN row.status ELSE "sleep"

\* PollOutcome that takes only a failure or a cancellation as final
PollOutcomeNoCompleted(snap) ==
  IF snap = {} THEN "not_found"
  ELSE LET row == CHOOSE r \in snap : TRUE
       IN IF row.status \in {"failed", "cancelled"}
          THEN row.status ELSE "sleep"

\* PollOutcome that knows pending and running as the statuses of a request
\* in flight and takes every other stored status as final
PollOutcomeKnownInFlight(snap) ==
  IF snap = {} THEN "not_found"
  ELSE LET row == CHOOSE r \in snap : TRUE
       IN IF row.status \in {"pending", "running"}
          THEN "sleep" ELSE row.status

\* what the loop body does with the row it read: return "not_found", return
\* the stored status, or go on to sleep
PollOutcome(snap) ==
  IF snap = {} THEN "not_found"
  ELSE LET row == CHOOSE r \in snap : TRUE
       IN IF row.status \in WaitTerminal THEN row.status ELSE "sleep"

\* TimedOutStore that records the expiry in the row
TimedOutStoreMarked(t, id) ==
  [i \in DOMAIN t |->
     IF i = id THEN [t[i] EXCEPT !.status = "timeout"] ELSE t[i]]

\* the table as the wait leaves it when the loop ends on the budget: the code
\* after the loop prints and returns
TimedOutStore(t, id) == t

\* one evaluation of the loop condition and, if it holds, of the loop body
\* up to the call of time.sleep
WaitPoll ==
  /\ w_pc = "loop"
  /\ IF WithinBudget(w_start, w_timeout)
     THEN /\ w_polls' = w_polls + 1
          /\ w_prev' = w_read
          /\ w_read' = StatusOf(rows, w_id)
          /\ rows' = rows
          /\ IF PollOutcome(SelectById(rows, w_id)) = "sleep"
             THEN /\ w_pc' = "sleep"
                  /\ w_from' = now
                  /\ w_sleeps' = w_sleeps + 1
                  /\ UNCHANGED w_result
             ELSE /\ w_pc' = "done"
                  /\ w_result' = PollOutcome(SelectById(rows, w_id))
                  /\ UNCHANGED <<w_from, w_sleeps>>
     ELSE /\ w_pc' = "done"
          /\ w_result' = "timeout"
          /\ rows' = TimedOutStore(rows, w_id)
          /\ UNCHANGED <<w_from, w_read, w_prev, w_polls, w_sleeps>>
  /\ w_end' = IF w_pc' = "done" THEN now ELSE 0
  /\ w_rowEnd' = IF w_pc' = "done" THEN StatusOf(rows', w_id) ELSE "none"
  /\ lastOp' = NoOp
  /\ prevOp' = NoOp
  /\ listed' = << >>
  /\ UNCHANGED <<maintVars, cliVars,
                 concVars, migVars, otherVars, m_op>>
  /\ UNCHANGED <<seq, now, w_id, w_timeout, w_start, w_row0, w_late,
                 histVars>>

\* time.sleep(0.5) returns
WaitWake ==
  /\ w_pc = "sleep"
  /\ now - w_from >= PollInterval
  /\ w_pc' = "loop"
  /\ w_late' = (w_late \/ now - w_from > PollInterval)
  /\ lastOp' = NoOp
  /\ prevOp' = NoOp
  /\ listed' = << >>
  /\ UNCHANGED <<maintVars, cliVars,
                 concVars, migVars, otherVars, m_op>>
  /\ UNCHANGED <<rows, seq, now, w_id, w_timeout, w_start, w_from, w_read,
                 w_prev, w_polls, w_sleeps, w_result, w_row0, w_end,
                 w_rowEnd, histVars>>

\* the process that called wait_for_completion exits
WaitExit ==
  /\ w_pc = "done"
  /\ w_pc' = "exited"
  /\ w_id' = 0
  /\ w_timeout' = 0
  /\ w_start' = 0
  /\ w_from' = 0
  /\ w_read' = "none"
  /\ w_prev' = "none"
  /\ w_polls' = 0
  /\ w_sleeps' = 0
  /\ w_result' = "none"
  /\ w_row0' = "none"
  /\ w_late' = FALSE
  /\ w_end' = 0
  /\ w_rowEnd' = "none"
  /\ lastOp' = NoOp
  /\ prevOp' = NoOp
  /\ listed' = << >>
  /\ UNCHANGED <<maintVars, cliVars,
                 concVars, migVars, otherVars, m_op>>
  /\ UNCHANGED <<rows, seq, now, histVars>>

\* ---------------------------------------------------------------- the clock
Tick ==
  /\ now < MaxTime
  /\ now' = now + 1
  /\ w_late' = (w_late \/ w_pc = "loop")
  /\ lastOp' = NoOp
  /\ prevOp' = NoOp
  /\ listed' = << >>
  /\ UNCHANGED <<maintVars, cliVars,
                 concVars, migVars, otherVars, m_op>>
  /\ UNCHANGED <<rows, seq, w_pc, w_id, w_timeout, w_start, w_from, w_read,
                 w_prev, w_polls, w_sleeps, w_result, w_row0, w_end,
                 w_rowEnd, histVars>>

\* ------------------------------------------------------------ the executor
\* the executor claims a pending row
ExecutorClaim(id, s) ==
  /\ id \in DOMAIN rows
  /\ rows[id].status = "pending"
  /\ rows' = [rows EXCEPT ![id].status = s, ![id].started_at = NowSeconds]
  /\ claimed' = claimed \cup {id}
  /\ lastOp' = NoOp
  /\ prevOp' = NoOp
  /\ listed' = << >>
  /\ UNCHANGED <<maintVars, cliVars,
                 concVars, migVars, otherVars, m_op>>
  /\ UNCHANGED <<seq, now, waitVars, skipped, cancelled>>

\* the executor moves a claimed row through its intermediate statuses
ExecutorProgress(id) ==
  /\ id \in DOMAIN rows
  /\ rows[id].status \in {"processing", "executing"}
  /\ rows' = [rows EXCEPT ![id].status =
                IF rows[id].status = "processing"
                THEN "executing" ELSE "finalizing"]
  /\ lastOp' = NoOp
  /\ prevOp' = NoOp
  /\ listed' = << >>
  /\ UNCHANGED <<maintVars, cliVars,
                 concVars, migVars, otherVars, m_op>>
  /\ UNCHANGED <<seq, now, waitVars, histVars>>

\* the executor resolves a row, possibly straight from pending
ExecutorFinish(id, s) ==
  /\ id \in DOMAIN rows
  /\ rows[id].status \notin TerminalSet
  /\ rows' = [rows EXCEPT ![id].status = s,
                          ![id].started_at =
                             IF rows[id].started_at = Null
                             THEN NowSeconds ELSE rows[id].started_at,
                          ![id].completed_at = NowSeconds]
  /\ claimed' = claimed \cup {id}
  /\ skipped' = IF rows[id].status = "pending"
                THEN skipped \cup {id} ELSE skipped
  /\ lastOp' = NoOp
  /\ prevOp' = NoOp
  /\ listed' = << >>
  /\ UNCHANGED <<maintVars, cliVars,
                 concVars, migVars, otherVars, m_op>>
  /\ UNCHANGED <<seq, now, waitVars, cancelled>>

\* --------------------------------------------------------------- retention
\* DatabaseCleaner.clean_old_data, the menu_item_requests statement
Cleanup(keep) ==
  /\ CleanDeletes(rows, NowSeconds - keep) # {}
  /\ rows' = [i \in DOMAIN rows \ CleanDeletes(rows, NowSeconds - keep)
                |-> rows[i]]
  /\ lastOp' = NoOp
  /\ prevOp' = NoOp
  /\ listed' = << >>
  /\ UNCHANGED <<maintVars, cliVars,
                 concVars, migVars, otherVars, m_op>>
  /\ UNCHANGED <<seq, now, waitVars, histVars>>

Next ==
  \/ \E p \in MenuPaths, q \in Priorities : Submit(p, q)
  \/ \E i \in Ids : GetStatus(i)
  \/ \E i \in Ids : Cancel(i)
  \/ ListPending
  \/ \E i \in Ids, t \in Timeouts : WaitStart(i, t)
  \/ WaitPoll
  \/ WaitWake
  \/ WaitExit
  \/ Tick
  \/ \E i \in Ids, s \in ClaimStatuses : ExecutorClaim(i, s)
  \/ \E i \in Ids : ExecutorProgress(i)
  \/ \E i \in Ids, s \in ExecutorTerminal : ExecutorFinish(i, s)
  \/ \E k \in KeepValues : Cleanup(k)

Spec == Init /\ [][Next]_vars

\* the clock advances and the waiting process is scheduled
LiveSpec ==
  Spec /\ WF_vars(Tick) /\ WF_vars(WaitPoll) /\ WF_vars(WaitWake)

\* ------------------------------------------------------ the pending queue
\* MenuCoordinator.submit_menu_request, on a table that takes MaxQueue rows
SubmitMenuRequest(path, prio) ==
  /\ seq < MaxQueue
  /\ rows' = InsertRow(rows, seq + 1, path, prio)
  /\ seq' = seq + 1
  /\ lastOp' = [op |-> "submit", id |-> seq + 1, ok |-> TRUE,
                pre |-> "absent",
                snap |-> {[menu_path |-> path, priority |-> prio]}]
  /\ prevOp' = NoOp
  /\ listed' = << >>
  /\ UNCHANGED <<now, waitVars, histVars, maintVars, cliVars,
                 concVars, migVars, otherVars, m_op>>

\* several requests in the table, submitted, cancelled, claimed and listed
QueueNext ==
  \/ \E p \in MenuPaths, q \in Priorities : SubmitMenuRequest(p, q)
  \/ \E i \in QueueIds : Cancel(i)
  \/ ListPending
  \/ Tick
  \/ \E i \in QueueIds, s \in ClaimStatuses : ExecutorClaim(i, s)

QueueSpec == Init /\ [][QueueNext]_vars

\* ------------------------------------------- test_requests and retention
\* the largest number of a set of ids, 0 for none
MaxOf(S) == IF S = {} THEN 0 ELSE CHOOSE m \in S : \A x \in S : x <= m

\* INSERT INTO test_requests: the row with the column defaults
InsertTestRow(t, id) ==
  [i \in DOMAIN t \cup {id} |->
     IF i = id
     THEN [id |-> id, status |-> "pending", created_at |-> day]
     ELSE t[i]]

\* sqlite_sequence of test_requests_new after INSERT ... SELECT id, ... FROM
\* test_requests, DROP TABLE test_requests and the RENAME: the largest id
\* copied
RebuiltSeq(t) == MaxOf(DOMAIN t)

\* DELETE FROM test_requests WHERE created_at < datetime('now', '-7 days')
MigrationDeletes(t) ==
  {i \in DOMAIN t : t[i].created_at < day - RetentionDays}

\* DELETE FROM test_results WHERE created_at < ?
ResultDeletes(res, cutoff) == {r \in res : r.created_at < cutoff}

\* DELETE FROM test_results WHERE request_id NOT IN (SELECT id FROM
\* test_requests)
OrphanResults(res, ids) == {r \in res : r.request_id \notin ids}

\* a test request is submitted and its id returned
SubmitTest ==
  /\ t_seq < MaxTestId
  /\ Len(t_issued) < MaxIssued
  /\ t_rows' = InsertTestRow(t_rows, t_seq + 1)
  /\ t_seq' = t_seq + 1
  /\ t_issued' = Append(t_issued, t_seq + 1)
  /\ t_purged' = {}
  /\ UNCHANGED <<t_check, t_version, day, r_rows, r_seq, coordVars, cliVars,
                 concVars, migVars, otherVars>>
  /\ m_op' = NoMaintOp

\* the executor claims a pending test request
ClaimTest(id) ==
  /\ id \in DOMAIN t_rows
  /\ t_rows[id].status = "pending"
  /\ t_rows' = [t_rows EXCEPT ![id].status = "running"]
  /\ t_purged' = {}
  /\ UNCHANGED <<t_seq, t_issued, t_check, t_version, day, r_rows, r_seq, coordVars,
                 cliVars,
                 concVars, migVars, otherVars>>
  /\ m_op' = NoMaintOp

\* the executor resolves a test request
FinishTest(id, s) ==
  /\ id \in DOMAIN t_rows
  /\ t_rows[id].status \notin TerminalSet
  /\ t_rows' = [t_rows EXCEPT ![id].status = s]
  /\ t_purged' = {}
  /\ UNCHANGED <<t_seq, t_issued, t_check, t_version, day, r_rows, r_seq, coordVars,
                 cliVars,
                 concVars, migVars, otherVars>>
  /\ m_op' = NoMaintOp

\* DatabaseCleaner.clean_old_data, the statements on test_results and on
\* test_requests
CleanOldData(keep) ==
  /\ \/ CleanDeletes(t_rows, day - keep) # {}
     \/ ResultDeletes(r_rows, day - keep) # {}
  /\ t_rows' = [i \in DOMAIN t_rows \ CleanDeletes(t_rows, day - keep)
                  |-> t_rows[i]]
  /\ t_purged' = {t_rows[i].status : i \in CleanDeletes(t_rows, day - keep)}
  /\ UNCHANGED <<t_seq, t_issued, t_check, t_version, day, r_seq, coordVars,
                 cliVars,
                 concVars, migVars, otherVars>>
  /\ r_rows' = r_rows \ ResultDeletes(r_rows, day - keep)
  /\ m_op' = [op |-> "clean", v |-> 0, ok |-> TRUE]

\* Rollback leaving the statements of the transaction in place
RollbackKeeps(before, after) == after

\* conn.rollback(): the database as it was at BEGIN TRANSACTION
Rollback(before, after) == before

\* the place of id i among the ids D, from 1
Rank(D, i) == Cardinality({j \in D : j <= i})

\* CopyRows without the id column: the copies get the ids 1, 2, ...
CopyRowsRenumbered(t) ==
  [k \in 1..Cardinality(DOMAIN t) |->
     LET i == CHOOSE x \in DOMAIN t : Rank(DOMAIN t, x) = k
     IN [t[i] EXCEPT !.id = k]]

\* INSERT INTO test_requests_new (id, ...) SELECT id, ... FROM test_requests
CopyRows(t) == [i \in DOMAIN t |-> t[i]]

\* the validation: a row is inserted without an id with the status
\* 'processing', set to 'executing', to 'finalizing', and deleted
ValidationInsert(t, id) ==
  [i \in DOMAIN t \cup {id} |->
     IF i = id
     THEN [id |-> id, status |-> "processing", created_at |-> day]
     ELSE t[i]]

ValidationDelete(t, id) == [i \in DOMAIN t \ {id} |-> t[i]]

\* the statements of update_status_constraint at which sqlite3 can raise
UpdateSteps == {"create", "copy", "drop", "rename", "index", "validate"}

\* the rows of test_requests in the open transaction when step raises:
\* after DROP TABLE the name test_requests has no table until the RENAME
UpdateInterrupted(t, step) ==
  CASE step \in {"create", "copy", "drop"} -> t
    [] step = "rename" -> << >>
    [] step = "index" -> CopyRows(t)
    [] OTHER -> ValidationInsert(CopyRows(t), RebuiltSeq(t) + 1)

\* update_status_constraint: the table is rebuilt with the rows and ids it
\* has, then a row is inserted without an id, updated twice and deleted
UpdateStatusConstraint ==
  /\ t_rows' = ValidationDelete(
                 ValidationInsert(CopyRows(t_rows), RebuiltSeq(t_rows) + 1),
                 RebuiltSeq(t_rows) + 1)
  /\ t_seq' = RebuiltSeq(t_rows) + 1
  /\ t_check' = TRUE
  /\ t_purged' = {}
  /\ m_op' = [op |-> "update", v |-> 0, ok |-> TRUE]
  /\ UNCHANGED <<t_issued, t_version, day, r_rows, r_seq, coordVars, cliVars,
                 concVars, migVars, otherVars>>

\* update_status_constraint when sqlite3 raises at step: the handler rolls
\* back and returns False; the validation runs after the commit of the
\* rebuilt table
UpdateStatusConstraintFails(step) ==
  /\ t_rows' = IF step = "validate"
               THEN Rollback(CopyRows(t_rows),
                             UpdateInterrupted(t_rows, step))
               ELSE Rollback(t_rows, UpdateInterrupted(t_rows, step))
  /\ t_seq' = IF step = "validate" THEN RebuiltSeq(t_rows) ELSE t_seq
  /\ t_check' = (t_check \/ step = "validate")
  /\ t_purged' = {}
  /\ m_op' = [op |-> "update", v |-> 0, ok |-> FALSE]
  /\ UNCHANGED <<t_issued, t_version, day, r_rows, r_seq, coordVars, cliVars,
                 concVars, migVars, otherVars>>

\* run_maintenance applies the migration after the recorded version:
\* apply_migration_v1 rebuilds test_requests when its CHECK has no
\* 'processing', apply_migration_v2 works on refresh_requests,
\* apply_migration_v3 deletes the old test requests
ApplyMigration(v) ==
  /\ v = t_version + 1
  /\ t_version' = v
  /\ t_rows' = IF v = 3
               THEN [i \in DOMAIN t_rows \ MigrationDeletes(t_rows)
                       |-> t_rows[i]]
               ELSE t_rows
  /\ t_purged' = IF v = 3
                 THEN {t_rows[i].status : i \in MigrationDeletes(t_rows)}
                 ELSE {}
  /\ t_seq' = IF v = 1 /\ ~t_check THEN RebuiltSeq(t_rows) ELSE t_seq
  /\ t_check' = (t_check \/ v = 1)
  /\ r_rows' = IF v = 3
               THEN r_rows \ OrphanResults(r_rows, DOMAIN t_rows')
               ELSE r_rows
  /\ UNCHANGED <<t_issued, day, r_seq, coordVars, cliVars,
                 concVars, migVars, otherVars>>
  /\ m_op' = NoMaintOp

\* a day passes
NextDay ==
  /\ day < MaxDay
  /\ day' = day + 1
  /\ t_purged' = {}
  /\ UNCHANGED <<t_rows, t_seq, t_issued, t_check, t_version, r_rows, r_seq,
                 coordVars,
                 cliVars,
                 concVars, migVars, otherVars>>
  /\ m_op' = NoMaintOp

MaintNext ==
  \/ SubmitTest
  \/ \E i \in TestIds : ClaimTest(i)
  \/ \E i \in TestIds, s \in ExecutorTerminal : FinishTest(i, s)
  \/ \E k \in KeepDays : CleanOldData(k)
  \/ UpdateStatusConstraint
  \/ \E s \in UpdateSteps : UpdateStatusConstraintFails(s)
  \/ \E v \in 1..3 : ApplyMigration(v)
  \/ NextDay

MaintSpec == Init /\ [][MaintNext]_vars

\* ------------------------------------------------ test_results
\* the executor writes a result of a running test request
StoreResult(id) ==
  /\ id \in DOMAIN t_rows
  /\ t_rows[id].status = "running"
  /\ r_seq < MaxResults
  /\ r_rows' = r_rows \cup {[id |-> r_seq + 1, request_id |-> id,
                             created_at |-> day]}
  /\ r_seq' = r_seq + 1
  /\ t_purged' = {}
  /\ m_op' = NoMaintOp
  /\ UNCHANGED <<t_rows, t_seq, t_issued, t_check, t_version, day,
                 coordVars, cliVars, concVars, migVars, otherVars>>

\* test requests, their results and the retention sweep
ResultNext ==
  \/ SubmitTest
  \/ \E i \in TestIds : ClaimTest(i)
  \/ \E i \in TestIds, s \in ExecutorTerminal : FinishTest(i, s)
  \/ \E i \in TestIds : StoreResult(i)
  \/ \E k \in KeepDays : CleanOldData(k)
  \/ NextDay

ResultSpec == Init /\ [][ResultNext]_vars

\* ------------------------------------------------ the command line scripts
\* quick_test.py: the actions that submit a test request
TestActions == {"all", "class", "method", "category"}
\* scene_hierarchy.py export: the export types
ExportTypes == {"full", "object"}
\* the optional positional argument, left out or given
Targets == {"", "Some.Target"}
\* what wait_for_completion returns
WaitResults == WaitTerminal \cup {"timeout", "not_found"}

\* TargetMissing that asks a target of the class action only
TargetMissingClassOnly(action, target) == action = "class" /\ target = ""

\* quick_test.py: args.action != 'all' and not test_filter
TargetMissing(action, target) == action # "all" /\ target = ""

\* scene_hierarchy.py: args.type == 'object' and not target_path
PathMissing(type, target) == type = "object" /\ target = ""

\* the exit code of a run whose wait_for_completion returned final:
\* quick_menu.py calls sys.exit(1) for 'failed'; quick_test.py and
\* scene_hierarchy.py go on to the end of main
ExitCode(kind, final) == IF kind = "menu" /\ final = "failed" THEN 1 ELSE 0

\* a run that ends before or without a wait
RunEnds(kind, args, code) ==
  /\ c_pc' = "exited"
  /\ c_kind' = kind
  /\ c_args' = args
  /\ c_final' = "none"
  /\ c_exit' = code

\* a run that has inserted its row: it waits with --wait and ends without
RunSubmitted(kind, args) ==
  /\ c_count[kind] < MaxInserted
  /\ c_count' = [c_count EXCEPT ![kind] = c_count[kind] + 1]
  /\ c_kind' = kind
  /\ c_args' = args
  /\ c_final' = "none"
  /\ c_pc' = IF args.wait THEN "waiting" ELSE "exited"
  /\ c_exit' = IF args.wait THEN Null ELSE 0

\* quick_menu.py execute <menu_path> [--wait]
MenuMain(path, wait) ==
  /\ c_pc \in {"none", "exited"}
  /\ RunSubmitted("menu", [cmd |-> "execute", target |-> path, wait |-> wait])
  /\ c_check' = "none"
  /\ UNCHANGED <<coordVars, maintVars,
                 concVars, migVars, otherVars, m_op>>

\* how the subprocess of check_compilation_errors can end: return code 0;
\* another code with JSON on stdout, with other text, with nothing; the
\* timeout of ten seconds; any other exception
CheckOutcomes == {"rc0", "json", "text", "empty", "timeout", "raised"}

\* HasErrors that takes only a JSON answer for errors
HasErrorsJsonOnly(check) == check = "json"

\* has_errors of check_compilation_errors
HasErrors(check) == check \in {"json", "text"}

\* quick_test.py <action> [target] [--wait] [--skip-compilation-check];
\* check: how the subprocess of the compilation check ends, if it is run
TestMain(action, target, wait, skip, check) ==
  /\ c_pc \in {"none", "exited"}
  /\ LET args == [cmd |-> action, target |-> target, wait |-> wait]
     IN IF TargetMissing(action, target)
        THEN /\ RunEnds("test", args, 1)
             /\ c_check' = "none"
             /\ UNCHANGED c_count
        ELSE IF ~skip /\ HasErrors(check)
        THEN /\ RunEnds("test", args, 2)
             /\ c_check' = check
             /\ UNCHANGED c_count
        ELSE /\ RunSubmitted("test", args)
             /\ c_check' = IF skip THEN "skipped" ELSE check
  /\ UNCHANGED <<coordVars, maintVars,
                 concVars, migVars, otherVars, m_op>>

\* scene_hierarchy.py export <type> [target] [--wait]; table: the table
\* scene_hierarchy_requests exists
HierarchyMain(type, target, wait, table) ==
  /\ c_pc \in {"none", "exited"}
  /\ LET args == [cmd |-> type, target |-> target, wait |-> wait]
     IN IF PathMissing(type, target) \/ ~table
        THEN RunEnds("hierarchy", args, 0) /\ UNCHANGED c_count
        ELSE RunSubmitted("hierarchy", args)
  /\ c_check' = "none"
  /\ UNCHANGED <<coordVars, maintVars,
                 concVars, migVars, otherVars, m_op>>

\* wait_for_completion returns and main runs to its end
WaitReturns(final) ==
  /\ c_pc = "waiting"
  /\ c_pc' = "exited"
  /\ c_final' = final
  /\ c_exit' = ExitCode(c_kind, final)
  /\ UNCHANGED <<c_kind, c_args, c_count, c_check, coordVars, maintVars,
                 concVars, migVars, otherVars, m_op>>

\* the exit code of a cancel run whose cancel_request returned ok: main
\* drops the returned value and runs to its end
CancelExitCode(kind, ok) == 0

\* a cancel run that has called cancel_request; c_final keeps what the call
\* returned
CancelRun(kind, target, ok) ==
  /\ c_pc' = "exited"
  /\ c_kind' = kind
  /\ c_args' = [cmd |-> "cancel", target |-> target, wait |-> FALSE]
  /\ c_final' = IF ok THEN "True" ELSE "False"
  /\ c_exit' = CancelExitCode(kind, ok)
  /\ UNCHANGED c_count

\* quick_menu.py cancel <request_id>; ok: what cancel_request returns
MenuCancelMain(ok) ==
  /\ c_pc \in {"none", "exited"}
  /\ CancelRun("menu", "1", ok)
  /\ c_check' = "none"
  /\ UNCHANGED <<coordVars, maintVars,
                 concVars, migVars, otherVars, m_op>>

\* quick_test.py cancel [target]; ok: what cancel_request returns
TestCancelMain(target, ok) ==
  /\ c_pc \in {"none", "exited"}
  /\ IF target = ""
     THEN /\ RunEnds("test", [cmd |-> "cancel", target |-> target,
                              wait |-> FALSE], 1)
          /\ UNCHANGED c_count
     ELSE CancelRun("test", target, ok)
  /\ c_check' = "none"
  /\ UNCHANGED <<coordVars, maintVars,
                 concVars, migVars, otherVars, m_op>>

CliNext ==
  \/ \E p \in MenuPaths, w \in BOOLEAN : MenuMain(p, w)
  \/ \E a \in TestActions, t \in Targets, w \in BOOLEAN, k \in BOOLEAN,
        o \in CheckOutcomes :
        TestMain(a, t, w, k, o)
  \/ \E y \in ExportTypes, t \in Targets, w \in BOOLEAN, b \in BOOLEAN :
        HierarchyMain(y, t, w, b)
  \/ \E f \in WaitResults : WaitReturns(f)
  \/ \E b \in BOOLEAN : MenuCancelMain(b)
  \/ \E t \in Targets, b \in BOOLEAN : TestCancelMain(t, b)

CliSpec == Init /\ [][CliNext]_vars

\* ------------------------------------------ failures and interruptions
\* the steps of submit_menu_request at which sqlite3 can raise
SubmitSteps == {"connect", "insert", "commit"}

\* the table as the connection of a submit sees it when step raises: the
\* INSERT has run only when it is conn.commit() that raises
Uncommitted(t, id, path, prio, step) ==
  IF step = "commit" THEN InsertRow(t, id, path, prio) ELSE t

\* CloseConnection making the open transaction durable
CloseConnectionCommits(committed, uncommitted) == uncommitted

\* finally: conn.close() with a transaction still open: the transaction is
\* discarded and the table is the committed one
CloseConnection(committed, uncommitted) == committed

\* submit_menu_request when sqlite3 raises at step: the exception leaves the
\* function through the finally clause and no id is returned
SubmitFails(path, prio, step) ==
  /\ rows' = CloseConnection(rows,
                             Uncommitted(rows, seq + 1, path, prio, step))
  /\ lastOp' = [op |-> "submit", id |-> 0, ok |-> FALSE, pre |-> step,
                snap |-> {[menu_path |-> path, priority |-> prio]}]
  /\ prevOp' = NoOp
  /\ listed' = << >>
  /\ UNCHANGED <<seq, now, waitVars, histVars, maintVars, cliVars,
                 concVars, migVars, otherVars, m_op>>

\* get_request_status raises inside the loop of wait_for_completion: the
\* loop has no handler, the exception leaves wait_for_completion and main
\* prints it and exits
WaitPollRaises ==
  /\ w_pc = "loop"
  /\ WithinBudget(w_start, w_timeout)
  /\ w_polls' = w_polls + 1
  /\ w_prev' = w_read
  /\ w_read' = "unreadable"
  /\ w_pc' = "done"
  /\ w_result' = "raised"
  /\ w_end' = now
  /\ w_rowEnd' = StatusOf(rows, w_id)
  /\ lastOp' = NoOp
  /\ prevOp' = NoOp
  /\ listed' = << >>
  /\ UNCHANGED <<maintVars, cliVars,
                 concVars, migVars, otherVars, m_op>>
  /\ UNCHANGED <<rows, seq, now, w_id, w_timeout, w_start, w_from, w_sleeps,
                 w_row0, w_late, histVars>>

\* InterruptedStore with the request cancelled on the way out
InterruptedStoreCancelling(t, id) == CancelUpdate(t, id)

\* the table as main leaves it on KeyboardInterrupt: the handler prints
\* "Operation cancelled" and calls sys.exit(1)
InterruptedStore(t, id) == t

\* Ctrl-C while wait_for_completion polls or sleeps: the process exits
WaitInterrupt ==
  /\ w_pc \in {"loop", "sleep"}
  /\ rows' = InterruptedStore(rows, w_id)
  /\ w_pc' = "exited"
  /\ w_id' = 0
  /\ w_timeout' = 0
  /\ w_start' = 0
  /\ w_from' = 0
  /\ w_read' = "none"
  /\ w_prev' = "none"
  /\ w_polls' = 0
  /\ w_sleeps' = 0
  /\ w_result' = "none"
  /\ w_row0' = "none"
  /\ w_late' = FALSE
  /\ w_end' = 0
  /\ w_rowEnd' = "none"
  /\ lastOp' = [op |-> "interrupt", id |-> w_id, ok |-> FALSE,
                pre |-> StatusOf(rows, w_id), snap |-> {}]
  /\ prevOp' = NoOp
  /\ listed' = << >>
  /\ UNCHANGED <<maintVars, cliVars,
                 concVars, migVars, otherVars, m_op>>
  /\ UNCHANGED <<seq, now, histVars>>

\* the coordinator with a store that can fail and an operator who can
\* interrupt
FaultNext ==
  \/ \E p \in MenuPaths, q \in Priorities : Submit(p, q)
  \/ \E p \in MenuPaths, q \in Priorities, s \in SubmitSteps :
        SubmitFails(p, q, s)
  \/ \E i \in Ids : Cancel(i)
  \/ \E i \in Ids, t \in Timeouts : WaitStart(i, t)
  \/ WaitPoll
  \/ WaitPollRaises
  \/ WaitWake
  \/ WaitInterrupt
  \/ WaitExit
  \/ Tick
  \/ \E i \in Ids, s \in ClaimStatuses : ExecutorClaim(i, s)
  \/ \E i \in Ids, s \in ExecutorTerminal : ExecutorFinish(i, s)

FaultSpec == Init /\ [][FaultNext]_vars

\* ------------------------------------------------------ run_maintenance
\* the highest version of the list of migrations
NewestVersion == 4
\* the indexes of apply_migration_v4, and those of them before the index on
\* menu_requests
IndexCount == 4
IndexesBeforeMenu == 3

\* the database has a table menu_requests: the table of the menu requests
\* is menu_item_requests
HasMenuRequests == FALSE

\* the database of a run: test_requests, its sequence and its CHECK, the
\* indexes of apply_migration_v4 and schema_version
Db ==
  [rows |-> t_rows, seq |-> t_seq, check |-> t_check, idx |-> m_idx,
   schema |-> m_schema]

\* get_schema_version: SELECT version FROM schema_version ORDER BY
\* applied_at DESC LIMIT 1, 0 without a row; of the versions with the latest
\* applied_at the statement names none
SchemaVersionReads(schema) ==
  IF DOMAIN schema = {} THEN {0}
  ELSE {v \in DOMAIN schema :
          \A u \in DOMAIN schema : schema[u] <= schema[v]}

\* the database when apply_migration_v<v> has returned True
Migrated(db, v) ==
  CASE v = 1 -> [db EXCEPT
                   !.seq = IF db.check THEN db.seq ELSE RebuiltSeq(db.rows),
                   !.check = TRUE]
    [] v = 2 -> db
    [] v = 3 -> [db EXCEPT
                   !.rows = [i \in DOMAIN db.rows \ MigrationDeletes(db.rows)
                               |-> db.rows[i]]]
    [] OTHER -> [db EXCEPT !.idx = IndexCount]

\* the database of the open transaction when a statement of
\* apply_migration_v<v> raises: nothing done yet, or test_requests dropped
\* and test_requests_new not yet renamed (v1), the old requests deleted
\* (v3), the indexes before the one on menu_requests created (v4)
Interrupted(db, v) ==
  {db,
   CASE v = 1 -> IF db.check THEN db ELSE [db EXCEPT !.rows = << >>]
     [] v = 2 -> db
     [] v = 3 -> Migrated(db, 3)
     [] OTHER -> [db EXCEPT !.idx = IndexesBeforeMenu]}

\* set_schema_version: INSERT OR REPLACE INTO schema_version
Recorded(db, v, stamp) ==
  [db EXCEPT !.schema = [u \in DOMAIN db.schema \cup {v} |->
                           IF u = v THEN stamp ELSE db.schema[u]]]

\* apply_migration_v<v> can return True
MigrationCanSucceed(v) == v # NewestVersion \/ HasMenuRequests

\* run_maintenance up to the loop: current_version = get_schema_version(conn)
MaintStart ==
  /\ m_pc = "idle"
  /\ \E c \in SchemaVersionReads(m_schema) :
        /\ m_cur' = c
        /\ m_v' = c + 1
        /\ m_pc' = IF c < NewestVersion THEN "loop" ELSE "finish"
        /\ m_op' = [op |-> "start", v |-> c, ok |-> TRUE]
  /\ m_log' = << >>
  /\ m_ret' = "none"
  /\ UNCHANGED <<m_schema, m_clock, m_idx, maintVars, coordVars, cliVars,
                 concVars, otherVars>>

\* one pass of the loop for a version above current_version: BEGIN
\* TRANSACTION, the migration, then set_schema_version and commit, or
\* rollback and break
MaintIterate(ok) ==
  /\ m_pc = "loop"
  /\ ok => MigrationCanSucceed(m_v)
  /\ \E part \in Interrupted(Db, m_v) :
        LET new == IF ok THEN Recorded(Migrated(Db, m_v), m_v, m_clock)
                         ELSE Rollback(Db, part)
        IN /\ t_rows' = new.rows
           /\ t_seq' = new.seq
           /\ t_check' = new.check
           /\ m_idx' = new.idx
           /\ m_schema' = new.schema
  /\ t_purged' = IF ok /\ m_v = 3
                 THEN {t_rows[i].status : i \in MigrationDeletes(t_rows)}
                 ELSE {}
  /\ m_log' = Append(m_log, [v |-> m_v, ok |-> ok])
  /\ m_op' = [op |-> "migrate", v |-> m_v, ok |-> ok]
  /\ m_v' = IF ok THEN m_v + 1 ELSE m_v
  /\ m_pc' = IF ok /\ m_v < NewestVersion THEN "loop" ELSE "finish"
  /\ r_rows' = IF ok /\ m_v = 3
               THEN r_rows \ OrphanResults(r_rows, DOMAIN t_rows')
               ELSE r_rows
  /\ UNCHANGED <<t_issued, t_version, day, r_seq, m_clock, m_cur, m_ret, coordVars,
                 cliVars, concVars, otherVars>>

\* run_maintenance after the loop: VACUUM when a migration was applied, the
\* size and the version printed, return True; False when one of these
\* raises
MaintReturn(ok) ==
  /\ m_pc = "finish"
  /\ m_pc' = "idle"
  /\ m_ret' = IF ok THEN "True" ELSE "False"
  /\ m_op' = [op |-> "return", v |-> 0, ok |-> ok]
  /\ UNCHANGED <<m_schema, m_clock, m_cur, m_v, m_log, m_idx, maintVars,
                 coordVars, cliVars, concVars, otherVars>>

\* a second passes on the clock of CURRENT_TIMESTAMP
MaintSecond ==
  /\ m_clock < MaxStamp
  /\ m_clock' = m_clock + 1
  /\ m_op' = NoMaintOp
  /\ UNCHANGED <<m_schema, m_pc, m_cur, m_v, m_log, m_idx, m_ret, maintVars,
                 coordVars, cliVars, concVars, otherVars>>

\* runs of run_maintenance on a database in use
MigrateNext ==
  \/ SubmitTest
  \/ NextDay
  \/ MaintStart
  \/ \E b \in BOOLEAN : MaintIterate(b)
  \/ \E b \in BOOLEAN : MaintReturn(b)
  \/ MaintSecond

MigrateSpec == Init /\ [][MigrateNext]_vars

\* ------------------------------------------------ submits side by side
\* ReturnedId read back from the table as its largest id
ReturnedIdMax(t, last) == MaxOf(DOMAIN t)

\* request_id = cursor.lastrowid: the rowid of the last INSERT of this
\* connection
ReturnedId(t, last) == last

\* cursor.execute(INSERT ...) of process p: the INSERT takes the write lock
\* of the database, which one connection holds at a time, and a second
\* writer waits in the busy handler
SubmitInsert(p, path, prio) ==
  /\ s_pc[p] = "idle"
  /\ \A q \in Procs : s_pc[q] # "inserted"
  /\ seq < MaxQueue
  /\ s_pc' = [s_pc EXCEPT ![p] = "inserted"]
  /\ s_row' = [s_row EXCEPT
                 ![p] = {InsertRow(rows, seq + 1, path, prio)[seq + 1]}]
  /\ s_last' = [s_last EXCEPT ![p] = seq + 1]
  /\ lastOp' = NoOp
  /\ prevOp' = NoOp
  /\ listed' = << >>
  /\ UNCHANGED <<rows, seq, now, waitVars, histVars, maintVars, cliVars,
                 s_calls, migVars, otherVars, m_op>>

\* conn.commit() of process p: the row is in the table for every connection
\* and the lock is free
SubmitCommit(p) ==
  /\ s_pc[p] = "inserted"
  /\ s_pc' = [s_pc EXCEPT ![p] = "committed"]
  /\ rows' = [i \in DOMAIN rows \cup {s_last[p]} |->
                IF i = s_last[p] THEN CHOOSE r \in s_row[p] : TRUE
                ELSE rows[i]]
  /\ seq' = s_last[p]
  /\ lastOp' = NoOp
  /\ prevOp' = NoOp
  /\ listed' = << >>
  /\ UNCHANGED <<now, waitVars, histVars, maintVars, cliVars, s_row, s_last,
                 s_calls, migVars, otherVars, m_op>>

\* return request_id of process p, after the print and conn.close()
SubmitReturn(p) ==
  /\ s_pc[p] = "committed"
  /\ s_pc' = [s_pc EXCEPT ![p] = "idle"]
  /\ s_calls' = Append(s_calls,
                       [proc |-> p, id |-> ReturnedId(rows, s_last[p]),
                        menu_path |-> (CHOOSE r \in s_row[p] : TRUE).menu_path,
                        priority |-> (CHOOSE r \in s_row[p] : TRUE).priority])
  /\ s_row' = [s_row EXCEPT ![p] = {}]
  /\ s_last' = [s_last EXCEPT ![p] = 0]
  /\ lastOp' = NoOp
  /\ prevOp' = NoOp
  /\ listed' = << >>
  /\ UNCHANGED <<rows, seq, now, waitVars, histVars, maintVars, cliVars,
                 migVars, otherVars, m_op>>

\* several processes in submit_menu_request at once, and the clock
ConcNext ==
  \/ \E p \in Procs, path \in MenuPaths, q \in Priorities :
        SubmitInsert(p, path, q)
  \/ \E p \in Procs : SubmitCommit(p)
  \/ \E p \in Procs : SubmitReturn(p)
  \/ Tick

ConcSpec == Init /\ [][ConcNext]_vars

TypeOK ==
  /\ DOMAIN rows \subseteq Ids
  /\ \A i \in DOMAIN rows : rows[i].status \in StatusValues
  /\ seq \in 0..MaxId
  /\ now \in 0..MaxTime
  /\ w_pc \in {"idle", "loop", "sleep", "done", "exited"}

\* ================================================================== claims

\* C1: cancel(id) returns true and sets the status to cancelled exactly when
\* the row's status just before the call was pending; otherwise (missing id
\* or any other status) it returns false and changes nothing; a second
\* cancel right after a successful one returns false.
C1_CancelIffPending ==
  [][lastOp'.op = "cancel" =>
       /\ lastOp'.ok <=> (StatusOf(rows, lastOp'.id) = "pending")
       /\ lastOp'.ok =>
             /\ DOMAIN rows' = DOMAIN rows
             /\ \A i \in DOMAIN rows :
                   rows'[i] = IF i = lastOp'.id
                              THEN [rows[i] EXCEPT !.status = "cancelled"]
                              ELSE rows[i]
       /\ ~lastOp'.ok => rows' = rows
       /\ (lastOp.op = "cancel" /\ lastOp.id = lastOp'.id /\ lastOp.ok)
             => ~lastOp'.ok]_vars

\* C1 witness: two cancels in a row on a pending request, true then false
C1_Witness ==
  /\ lastOp.op = "cancel" /\ ~lastOp.ok /\ lastOp.pre = "cancelled"
  /\ prevOp.op = "cancel" /\ prevOp.ok /\ prevOp.pre = "pending"
  /\ prevOp.id = lastOp.id

\* C2: of a client cancel and the executor's claim of the same pending row
\* exactly one takes effect: a request whose cancel returned true is never
\* one the executor has written to and its row, while stored, is cancelled;
\* and no step turns a row the executor has claimed into cancelled.
C2_CancelXorClaim ==
  /\ [](\A i \in cancelled :
          /\ i \notin claimed
          /\ i \in DOMAIN rows => rows[i].status = "cancelled")
  /\ [][\A i \in claimed \cap DOMAIN rows \cap DOMAIN rows' :
          rows[i].status # "cancelled" => rows'[i].status # "cancelled"]_vars

\* C2 witness: the executor claimed the row first and the cancel that
\* followed returned false and left the claimed status
C2_Witness ==
  /\ lastOp.op = "cancel" /\ ~lastOp.ok
  /\ lastOp.pre \in ClaimStatuses
  /\ lastOp.id \in claimed
  /\ StatusOf(rows, lastOp.id) = lastOp.pre

\* C3: submit creates exactly one new row, pending, with the given menu
\* path and priority, leaving every other row alone; a getStatus made by the
\* very next step returns that row pending with started_at and
\* completed_at null.
C3_SubmitThenStatus ==
  [][/\ lastOp'.op = "submit" =>
          /\ lastOp'.id \notin DOMAIN rows
          /\ DOMAIN rows' = DOMAIN rows \cup {lastOp'.id}
          /\ \A i \in DOMAIN rows : rows'[i] = rows[i]
          /\ rows'[lastOp'.id].status = "pending"
          /\ rows'[lastOp'.id].id = lastOp'.id
          /\ lastOp'.snap =
                {[menu_path |-> rows'[lastOp'.id].menu_path,
                  priority |-> rows'[lastOp'.id].priority]}
     /\ (lastOp.op = "submit" /\ lastOp'.op = "status"
           /\ lastOp'.id = lastOp.id) =>
          /\ lastOp'.ok
          /\ \A r \in lastOp'.snap :
                /\ r.status = "pending"
                /\ r.started_at = Null
                /\ r.completed_at = Null
                /\ lastOp.snap = {[menu_path |-> r.menu_path,
                                   priority |-> r.priority]}]_vars

\* C3 witness: a getStatus right after the submit of a request with a
\* priority other than the default
C3_Witness ==
  /\ lastOp.op = "status" /\ lastOp.ok /\ lastOp.pre = "pending"
  /\ prevOp.op = "submit" /\ prevOp.id = lastOp.id
  /\ \E r \in lastOp.snap : r.priority = 5 /\ r.started_at = Null

\* a step of wait_for_completion
WaitStep == w_pc' # w_pc \/ w_polls' # w_polls

C5_TimeoutLeavesRow ==
  /\ []((w_pc = "done" /\ w_result = "timeout" /\ w_row0 = "pending"
          /\ w_id \notin claimed /\ w_id \notin cancelled)
         => w_rowEnd = "pending")
  /\ [][WaitStep => rows' = rows]_vars

\* C5 witness: a wait of one second on a pending row polled twice, never
\* claimed, has returned timeout
C5_Witness ==
  /\ w_pc = "done" /\ w_result = "timeout" /\ w_row0 = "pending"
  /\ w_timeout = 1 /\ w_polls = 2
  /\ w_id \notin claimed /\ w_id \notin cancelled
  /\ StatusOf(rows, w_id) = "pending"

\* C6: whenever the wait returns the local timeout, the stored status is
\* non-terminal at the moment of the return (stated for a wait that polled
\* at least once: a terminal status committed before the return is never
\* reported as timeout).
C6_TimeoutMeansInFlight ==
  (w_pc = "done" /\ w_result = "timeout" /\ w_polls >= 1)
    => w_rowEnd \notin TerminalSet

\* C7: a row advanced straight from pending to completed between two polls
\* is read as completed by the next poll, which ends the wait with
\* completed; each poll reads the status committed at that moment.
C7_DirectCompletionSeen ==
  /\ []((w_prev = "pending" /\ w_read = "completed")
         => (w_pc = "done" /\ w_result = "completed"))
  /\ [][w_polls' = w_polls + 1 => w_read' = StatusOf(rows, w_id)]_vars

\* C7 witness: the previous poll read pending, the executor resolved the row
\* straight from pending, and the wait returned completed
C7_Witness ==
  /\ w_pc = "done" /\ w_result = "completed"
  /\ w_prev = "pending" /\ w_read = "completed" /\ w_polls >= 2
  /\ w_id \in skipped

\* C8: a wait called on a request that is already terminal (and still
\* stored when the wait returns) returns that status from its first read,
\* without sleeping, whatever the timeout.
C8_TerminalAtCallReturnsAtOnce ==
  (w_pc = "done" /\ w_row0 \in TerminalSet /\ w_rowEnd = w_row0)
    => (w_result = w_row0 /\ w_polls = 1 /\ w_sleeps = 0)

\* C9: a poll that finds the row gone ends the wait with not_found.
C9_MissingRowNotFound ==
  w_read = "absent" => (w_pc = "done" /\ w_result = "not_found")

\* C9 witness: the row was there, pending, when the wait was called and at
\* its first poll, and was deleted before a later poll
C9_Witness ==
  /\ w_row0 = "pending" /\ w_prev = "pending" /\ w_read = "absent"
  /\ w_polls >= 2 /\ w_result = "not_found"

\* C10: with a clock that advances the wait always returns, with a status
\* the loop takes as final, not_found or timeout; when reads take no time
\* and sleeps do not overrun it returns within timeout plus one poll
\* interval and after at most ceil(timeout / interval) + 1 polls.
C10_WaitTerminates ==
  /\ (w_pc = "loop") ~> (w_pc = "done")
  /\ [](w_pc = "done" =>
          w_result \in TerminalSet \cup {"not_found", "timeout"})
  /\ []((w_pc = "done" /\ ~w_late) =>
          /\ w_end - w_start <= w_timeout * TicksPerSecond + PollInterval
          /\ w_polls <=
                CeilDiv(w_timeout * TicksPerSecond, PollInterval) + 1)

\* C10 witness: a wait with the largest timeout that used its whole budget
C10_Witness ==
  /\ w_pc = "done" /\ w_result = "timeout" /\ ~w_late
  /\ w_timeout = MaxTimeout
  /\ w_polls = CeilDiv(w_timeout * TicksPerSecond, PollInterval)
  /\ w_end - w_start = w_timeout * TicksPerSecond
\* a step of one of the coordinator's operations: a client call or a step of
\* wait_for_completion
CoordStep == lastOp'.op # "none" \/ WaitStep

\* C11: a poll that reads a status outside the terminal set (pending,
\* running, processing, executing, finalizing) leaves wait_for_completion
\* waiting, and wait_for_completion never returns a non-terminal status of
\* the vocabulary as its result.
C11_NonTerminalKeepsWaiting ==
  /\ [](w_pc = "done" => w_result \notin StatusValues \ TerminalSet)
  /\ [][(w_polls' = w_polls + 1
         /\ w_read' \in StatusValues \ TerminalSet)
          => (w_pc' = "sleep" /\ w_result' = "none"
              /\ w_sleeps' = w_sleeps + 1)]_vars

\* C11 witness: a poll read a row the executor had moved to finalizing, and
\* the wait went to sleep
C11_Witness ==
  w_pc = "sleep" /\ w_read = "finalizing" /\ w_polls >= 1 /\ w_result = "none"

\* C12: a step of a coordinator operation adds at most rows with status
\* pending and no started_at or completed_at, and changes an existing row at
\* most by setting its status to cancelled; it deletes no row.
C12_CoordinatorWrites ==
  [][CoordStep =>
       /\ DOMAIN rows \subseteq DOMAIN rows'
       /\ \A i \in DOMAIN rows' \ DOMAIN rows :
             /\ rows'[i].status = "pending"
             /\ rows'[i].started_at = Null
             /\ rows'[i].completed_at = Null
       /\ \A i \in DOMAIN rows :
             \/ rows'[i] = rows[i]
             \/ rows'[i] = [rows[i] EXCEPT !.status = "cancelled"]]_vars

\* C12 witness: a cancel has just set a pending row to cancelled, its
\* started_at and completed_at still unset
C12_Witness ==
  /\ lastOp.op = "cancel" /\ lastOp.ok
  /\ lastOp.id \in DOMAIN rows
  /\ rows[lastOp.id].status = "cancelled"
  /\ rows[lastOp.id].started_at = Null
  /\ rows[lastOp.id].completed_at = Null

\* C13: a step of a coordinator operation leaves every row whose status is
\* terminal in the table with that same status.
C13_TerminalStays ==
  [][CoordStep =>
       \A i \in DOMAIN rows :
          rows[i].status \in TerminalSet
            => (i \in DOMAIN rows' /\ rows'[i].status = rows[i].status)]_vars

\* C13 witness: a cancel was tried on a row the executor had resolved, and
\* the row kept its status
C13_Witness ==
  /\ lastOp.op = "cancel" /\ ~lastOp.ok
  /\ lastOp.pre \in ExecutorTerminal
  /\ StatusOf(rows, lastOp.id) = lastOp.pre

\* C18: a submit with an empty menu path inserts no row: the table and so
\* the number of pending rows stay as they were.
C18_EmptyPathRejected ==
  [][(lastOp'.op = "submit" /\ \E a \in lastOp'.snap : a.menu_path = "")
       => (rows' = rows
           /\ Cardinality({i \in DOMAIN rows' : rows'[i].status = "pending"})
                = Cardinality({i \in DOMAIN rows :
                                 rows[i].status = "pending"}))
    ]_vars


\* C16: what get_pending_requests returns holds each row whose status is
\* pending once, with the row's id, menu_path, priority and created_at, and
\* no other row; a higher priority comes first, and of two rows of equal
\* priority the one with the smaller created_at comes first.
C16_ListPendingExactAndSorted ==
  lastOp.op = "list" =>
     /\ {listed[k].id : k \in DOMAIN listed}
           = {i \in DOMAIN rows : rows[i].status = "pending"}
     /\ \A i, j \in DOMAIN listed : listed[i].id = listed[j].id => i = j
     /\ \A k \in DOMAIN listed : listed[k] = SelectColumns(rows[listed[k].id])
     /\ \A i, j \in DOMAIN listed :
           i < j => \/ listed[i].priority > listed[j].priority
                    \/ /\ listed[i].priority = listed[j].priority
                       /\ listed[i].created_at <= listed[j].created_at

\* C16 witness: two pending rows are listed, the later request first
\* because its priority is higher
C16_Witness ==
  /\ lastOp.op = "list"
  /\ Len(listed) = 2
  /\ listed[1].id > listed[2].id
  /\ listed[1].priority > listed[2].priority
  /\ listed[1].created_at >= listed[2].created_at

C14_IdsIncrease ==
  \A i, j \in DOMAIN t_issued : i < j => t_issued[i] < t_issued[j]

\* C15: every request row a retention step (clean_old_data, the third
\* migration) deletes has a terminal status when it is deleted.
C15_PurgesOnlyTerminal == t_purged \subseteq TerminalSet


\* the run was given a test action that needs a target, or an object
\* export, without the target
NoTargetGiven ==
  \/ c_kind = "test" /\ c_args.cmd \in {"class", "method", "category"}
                     /\ c_args.target = ""
  \/ c_kind = "hierarchy" /\ c_args.cmd = "object" /\ c_args.target = ""

\* C19: a run of quick_test.py with class, method or category and no target,
\* and a run of scene_hierarchy.py export object with no path, ends at once
\* and inserts no row into any request table.
C19_NoTargetNoInsert ==
  [][(c_pc \in {"none", "exited"} /\ NoTargetGiven')
       => (c_count' = c_count /\ c_pc' = "exited" /\ c_final' = "none")]_vars

\* C19 witness: after a run that inserted a test request, a run with the
\* method action and no target has ended with exit code 1 and no new row
C19_Witness ==
  /\ c_pc = "exited" /\ c_kind = "test"
  /\ c_args.cmd = "method" /\ c_args.target = ""
  /\ c_exit = 1
  /\ c_count["test"] = 1

\* C20: a run with --wait whose wait ended completed exits with code 0, and
\* one whose wait ended failed, cancelled or timeout exits with another code,
\* for each of the three scripts.
C20_ExitCodeTellsStatus ==
  (c_pc = "exited" /\ c_final # "none") =>
     /\ c_final = "completed" => c_exit = 0
     /\ c_final \in {"failed", "cancelled", "timeout"} => c_exit # 0


\* C21: a cancel run exits with code 0 when cancel_request returned True
\* (the request went from pending to cancelled), and with another code when
\* it returned False (the request was not pending or did not exist).
C21_CancelExitCode ==
  (c_pc = "exited" /\ c_args.cmd = "cancel" /\ c_final \in {"True", "False"})
     => (c_exit = 0 <=> c_final = "True")

\* C22: a read of the store that fails while the wait still has budget does
\* not end the wait: the wait goes on polling, and it ends on failed reads
\* only when the budget is used up.
C22_FailedReadRetried ==
  (w_pc = "done" /\ w_read = "unreadable")
     => w_end - w_start >= w_timeout * TicksPerSecond

\* C23: a submit that fails at the connection, at the INSERT or at the
\* commit leaves the request table as it was.
C23_FailedSubmitNoRow ==
  [][(lastOp'.op = "submit" /\ ~lastOp'.ok) => rows' = rows]_vars

\* a submit has failed at the commit, after its INSERT, on a table with a row
C23_Witness ==
  /\ lastOp.op = "submit"
  /\ ~lastOp.ok
  /\ lastOp.pre = "commit"
  /\ rows # << >>

\* C25: an interrupt of a wait changes no row of the request table: the
\* request waited for keeps its status and is not cancelled.
C25_InterruptLeavesRow ==
  [][lastOp'.op = "interrupt" => rows' = rows]_vars

\* a wait for a pending request was interrupted and the request is pending
C25_Witness ==
  /\ lastOp.op = "interrupt"
  /\ lastOp.pre = "pending"
  /\ StatusOf(rows, lastOp.id) = "pending"

\* C26: get_request_status and get_pending_requests change no column of no
\* row of the request table.
C26_ReadsChangeNothing ==
  [][lastOp'.op \in {"status", "list"} => rows' = rows]_vars

\* a row was read by id and the pending rows were listed, one call after
\* the other, on a table with a pending row
C26_Witness ==
  /\ lastOp.op = "list"
  /\ Len(listed) > 0
  /\ \E i \in DOMAIN rows : rows[i].status = "pending"

\* C24: submits of several processes at once return ids that differ from
\* one another, the id a submit returns is the id of the row that holds the
\* path and the priority of that submit, and the table has one row for each
\* submit that has committed.
C24_ConcurrentSubmits ==
  /\ \A i, j \in DOMAIN s_calls :
        i # j => s_calls[i].id # s_calls[j].id
  /\ \A i \in DOMAIN s_calls :
        /\ s_calls[i].id \in DOMAIN rows
        /\ rows[s_calls[i].id].menu_path = s_calls[i].menu_path
        /\ rows[s_calls[i].id].priority = s_calls[i].priority
  /\ Cardinality(DOMAIN rows)
       = Len(s_calls) + Cardinality({p \in Procs : s_pc[p] = "committed"})

\* two processes have submitted at once: the one that inserted first
\* returned last
C24_Witness ==
  /\ Len(s_calls) = 2
  /\ s_calls[1].proc # s_calls[2].proc
  /\ s_calls[1].id > s_calls[2].id

\* C27: when run_maintenance has returned True, schema_version holds every
\* version from 1 to the highest of the list of migrations, 4.
C27_TrueMeansNewest ==
  (m_pc = "idle" /\ m_ret = "True") => DOMAIN m_schema = 1..NewestVersion

\* C28: a run calls migrations of versions above current_version only, in
\* ascending order, and none after one that failed; a migration that
\* succeeds is recorded with its changes at once, and one that fails leaves
\* test_requests, its sequence and CHECK, the indexes and schema_version
\* as they were and ends the loop.
C28_MigrationsInOrderOrRolledBack ==
  /\ [](/\ \A i \in DOMAIN m_log : m_log[i].v > m_cur
        /\ \A i, j \in DOMAIN m_log : i < j => m_log[i].v < m_log[j].v
        /\ \A i \in DOMAIN m_log : i < Len(m_log) => m_log[i].ok)
  /\ [][(m_op'.op = "migrate" /\ m_op'.ok)
          => (/\ m_op'.v \in DOMAIN m_schema'
              /\ m_schema'[m_op'.v] = m_clock)]_vars
  /\ [][(m_op'.op = "migrate" /\ ~m_op'.ok)
          => (/\ t_rows' = t_rows
              /\ t_seq' = t_seq
              /\ t_check' = t_check
              /\ m_idx' = m_idx
              /\ m_schema' = m_schema
              /\ m_pc' = "finish")]_vars

\* migration 3 has failed, after two migrations applied in the same run, on
\* a table with a request older than the retention
C28_Witness ==
  /\ m_op.op = "migrate"
  /\ ~m_op.ok
  /\ m_op.v = 3
  /\ Len(m_log) = 3
  /\ \E i \in DOMAIN t_rows : t_rows[i].created_at < day - RetentionDays

\* C29: get_schema_version returns the highest version recorded in
\* schema_version.
C29_ReadsHighestVersion ==
  m_op.op = "start" => m_op.v = MaxOf(DOMAIN m_schema)

TestResults == {"Passed", "Failed", "Error"}
\* parse_xml_file of a file that cannot be parsed has no key tests
Unparsed == << "unparsed" >>
ResultFiles ==
  {Unparsed} \cup UNION {[1..n -> TestResults] : n \in 0..MaxTests}

\* the indexes of s, in order, whose element is in the set keep
RECURSIVE IndexesIn(_, _, _)
IndexesIn(s, keep, i) ==
  IF i > Len(s) THEN << >>
  ELSE (IF s[i] \in keep THEN << i >> ELSE << >>) \o IndexesIn(s, keep, i + 1)

\* failed = [t for t in data['tests'] if t['result'] in ['Failed', 'Error']]
FailedTests(file) ==
  IF file = Unparsed THEN << >>
  ELSE IndexesIn(file, {"Failed", "Error"}, 1)

\* s repeated n times
RECURSIVE Repeated(_, _)
Repeated(s, n) == IF n = 0 THEN << >> ELSE s \o Repeated(s, n - 1)

\* the list extended once, after the loop over the failed tests
ExtendedOnce(f, failed) == [k \in 1..Len(failed) |-> << f, failed[k] >>]

\* for test in failed: ...; all_failed.extend(failed)
\* the extend stands in the body of the loop: once per failed test
ExtendedInLoop(f, failed) == Repeated(ExtendedOnce(f, failed), Len(failed))

\* all_failed after the loop over the files: pairs <<file, test case>>
RECURSIVE AllFailed(_, _)
AllFailed(files, f) ==
  IF f > Len(files) THEN << >>
  ELSE ExtendedInLoop(f, FailedTests(files[f])) \o AllFailed(files, f + 1)

\* the lines [FAILED] printed, one per element of all_failed
FailedReport(files) == AllFailed(files, 1)

\* test_results.py failed over the files of list_result_files
FailedMain(files) ==
  /\ x_files' = files
  /\ x_report' = FailedReport(files)
  /\ UNCHANGED <<coordVars, maintVars, cliVars, concVars, migVars, m_op,
                 logVars, liveVars>>

ReportNext ==
  \E n \in 0..MaxFiles : \E files \in [1..n -> ResultFiles] : FailedMain(files)

ReportSpec == Init /\ [][ReportNext]_vars

\* ------------------------------------------------ monitor_editmode_logs.py
\* The session file is counted in lines: line i ends at offset i.
\* the Editor appends a log line to the current session file
LiveAppend ==
  /\ v_len < MaxLines
  /\ v_len' = v_len + 1
  /\ UNCHANGED <<v_pc, v_size, v_last, v_shown>>
  /\ UNCHANGED <<coordVars, maintVars, cliVars, concVars, migVars, m_op,
                 logVars, repVars>>

\* get_session_files: the size of the session file by stat
LiveStat ==
  /\ v_pc = "idle"
  /\ v_size' = v_len
  /\ v_pc' = "read"
  /\ UNCHANGED <<v_len, v_last, v_shown>>
  /\ UNCHANGED <<coordVars, maintVars, cliVars, concVars, migVars, m_op,
                 logVars, repVars>>

\* the lines of f.read() after f.seek(from): up to the end of the file
ReadToEnd(from, len) == [k \in 1..(len - from) |-> from + k]

\* monitor_live: the rest of one pass of the loop, after get_session_files
LiveRead ==
  /\ v_pc = "read"
  /\ v_pc' = "idle"
  /\ IF v_size > v_last
       THEN /\ v_shown' = v_shown \o ReadToEnd(v_last, v_len)
            /\ v_last' = v_size
       ELSE UNCHANGED <<v_shown, v_last>>
  /\ UNCHANGED <<v_len, v_size>>
  /\ UNCHANGED <<coordVars, maintVars, cliVars, concVars, migVars, m_op,
                 logVars, repVars>>

LiveLogNext ==
  \/ LiveAppend
  \/ LiveStat
  \/ LiveRead

LiveLogSpec == Init /\ [][LiveLogNext]_vars

\* ------------------------------------------------ editor_log_monitor.py
\* Editor.log is a sequence of pieces, each written by the Editor at once;
\* offsets are counted in pieces.  E1 and E2 are two compilation-error
\* lines (different file, line, column or code), M is a line with a refresh
\* marker, E1a is the beginning of the line E1 up to the middle of its
\* (line,column) and without the newline, E1b is the rest of that line.
WholeLines == {"E1", "E2", "M"}
LinePieces == {"E1", "E2", "E1a", "E1b"}

\* the seconds field of a timedelta of 0 or more: days are a field apart
SecondsInDay == 86400
TimedeltaSeconds(ticks) == (ticks \div TicksPerSecond) % SecondsInDay
\* (current_time - last_error_time).seconds <= 5
BatchWindow == 5
\* timedelta(seconds=1) of _mark_old_errors_stale
StaleAge == 1
\* the instants at which the monitor or the Editor act: 0.5 s, 1 s and
\* 5.5 s, 6 s apart, and a day later
Instants == {t \in {0, 1, 2, 13, 14, 172816} : t <= MaxClock}

\* _is_compilation_error: a part of an error line that ends inside
\* "(line,column)" or begins there matches none of the patterns
IsCompilationError(text) == text \in {"E1", "E2"}
\* _is_refresh_marker
IsRefreshMarker(text) == text = "M"

\* f.seek(last_position); f.readlines(): the lines from piece i on; a
\* beginning and its rest that are both in the file make one line, a
\* beginning at the end of the file is returned as a line of its own
RECURSIVE ReadLines(_, _)
ReadLines(log, i) ==
  IF i > Len(log) THEN << >>
  ELSE IF log[i] = "E1a" /\ i < Len(log) /\ log[i + 1] = "E1b"
    THEN << [text |-> "E1", idx |-> i + 1] >> \o ReadLines(log, i + 2)
    ELSE << [text |-> log[i], idx |-> i] >> \o ReadLines(log, i + 1)

\* _mark_old_errors_stale: UPDATE ... WHERE detected_at < now - 1 s
MarkOldErrorsStale(errs, clock) ==
  [k \in 1..Len(errs) |->
     IF errs[k].at < clock - StaleAge * TicksPerSecond
       THEN [errs[k] EXCEPT !.stale = TRUE]
       ELSE errs[k]]

\* strftime("%Y%m%d_%H%M%S") of the time of the first error of a batch
BatchId(clock) == clock \div TicksPerSecond

\* the error joins the current batch
JoinsBatch(last, clock) ==
  last # Null /\ TimedeltaSeconds(clock - last) <= BatchWindow

\* the body of the loop over the lines of process_new_content; st holds
\* seen_errors, current_batch_id, last_error_time, errors_found, the
\* table compilation_errors and the errors recognised so far
LineStep(st, line, clock, gen) ==
  IF IsRefreshMarker(line.text)
    THEN [st EXCEPT !.rows = MarkOldErrorsStale(st.rows, clock),
                    !.seen = {},
                    !.batch = Null]
  ELSE IF IsCompilationError(line.text)
    THEN LET joins == JoinsBatch(st.last, clock)
             b == IF joins THEN st.batch ELSE BatchId(clock)
             e == [err |-> line.text, at |-> clock, batch |-> b,
                   stale |-> FALSE, gen |-> gen, idx |-> line.idx]
         IN [st EXCEPT !.batch = b,
                       !.seen = IF joins THEN st.seen ELSE {},
                       !.last = clock,
                       !.found = Append(st.found, e),
                       !.hits = Append(st.hits, e)]
  ELSE st

RECURSIVE ProcessLines(_, _, _, _, _)
ProcessLines(st, lines, k, clock, gen) ==
  IF k > Len(lines) THEN st
  ELSE ProcessLines(LineStep(st, lines[k], clock, gen), lines, k + 1,
                    clock, gen)

\* _store_error: an error whose hash is in seen_errors is skipped
StoreError(st, e) ==
  IF e.err \in st.seen THEN st
  ELSE [st EXCEPT !.seen = st.seen \cup {e.err},
                  !.rows = Append(st.rows, e)]

\* for error in errors_found: self._store_error(error), after the loop
RECURSIVE StoreFound(_, _)
StoreFound(st, k) ==
  IF k > Len(st.found) THEN st
  ELSE StoreFound(StoreError(st, st.found[k]), k + 1)

\* the Editor writes a piece to Editor.log; the rest of a line follows
\* its beginning
LogAppend(pieces, piece) ==
  /\ piece \in pieces
  /\ Len(f_log) < MaxLog
  /\ (piece = "E1b") = (Len(f_log) > 0 /\ f_log[Len(f_log)] = "E1a")
  /\ f_log' = Append(f_log, piece)
  /\ UNCHANGED <<f_gen, l_pc, l_size, l_pos, l_seen, l_batch, l_last,
                 l_now, e_rows, l_hits, l_gen>>
  /\ UNCHANGED <<coordVars, maintVars, cliVars, concVars, migVars, m_op,
                 liveVars, repVars>>

\* Editor.log is replaced by a new, empty file between two polls
LogReplaced ==
  /\ l_pc = "idle"
  /\ f_gen < MaxGen
  /\ f_log' = << >>
  /\ f_gen' = f_gen + 1
  /\ UNCHANGED <<l_pc, l_size, l_pos, l_seen, l_batch, l_last, l_now,
                 e_rows, l_hits, l_gen>>
  /\ UNCHANGED <<coordVars, maintVars, cliVars, concVars, migVars, m_op,
                 liveVars, repVars>>

\* time passes between two polls
LogPass(t) ==
  /\ l_pc = "idle"
  /\ t \in Instants
  /\ t > l_now
  /\ l_now' = t
  /\ UNCHANGED <<f_log, f_gen, l_pc, l_size, l_pos, l_seen, l_batch,
                 l_last, e_rows, l_hits, l_gen>>
  /\ UNCHANGED <<coordVars, maintVars, cliVars, concVars, migVars, m_op,
                 liveVars, repVars>>

\* process_new_content up to the open of the file: the size by stat, the
\* reset after a truncation, the return when nothing is new
PollStat ==
  /\ l_pc = "idle"
  /\ l_size' = Len(f_log)
  /\ l_pos' = IF Len(f_log) < l_pos THEN 0 ELSE l_pos
  /\ l_seen' = IF Len(f_log) < l_pos THEN {} ELSE l_seen
  /\ l_pc' = IF Len(f_log) = l_pos' THEN "idle" ELSE "read"
  /\ l_gen' = f_gen
  /\ UNCHANGED <<f_log, f_gen, l_batch, l_last, l_now, e_rows, l_hits>>
  /\ UNCHANGED <<coordVars, maintVars, cliVars, concVars, migVars, m_op,
                 liveVars, repVars>>

\* process_new_content from the open on: the read to the end of the file,
\* the loop over the lines, the storing of errors_found, the position
PollRead ==
  /\ l_pc = "read"
  /\ LET st0 == [seen |-> l_seen, batch |-> l_batch, last |-> l_last,
                 found |-> << >>, rows |-> e_rows, hits |-> l_hits]
         lines == ReadLines(f_log, l_pos + 1)
         st1 == ProcessLines(st0, lines, 1, l_now, f_gen)
         st2 == StoreFound(st1, 1)
     IN /\ l_seen' = st2.seen
        /\ l_batch' = st2.batch
        /\ l_last' = st2.last
        /\ e_rows' = st2.rows
        /\ l_hits' = st2.hits
  /\ l_pos' = IF Len(f_log) > l_pos THEN Len(f_log) ELSE l_pos
  /\ l_pc' = "idle"
  /\ UNCHANGED <<f_log, f_gen, l_size, l_now, l_gen>>
  /\ UNCHANGED <<coordVars, maintVars, cliVars, concVars, migVars, m_op,
                 liveVars, repVars>>

\* the monitor over whole lines, with the clock
LogNext ==
  \/ \E p \in WholeLines : LogAppend(WholeLines, p)
  \/ \E t \in Instants : LogPass(t)
  \/ PollStat
  \/ PollRead

LogSpec == Init /\ [][LogNext]_vars

\* the monitor over lines written in one or two pieces and a file that
\* is replaced, all within half a second
TailNext ==
  \/ \E p \in LinePieces : LogAppend(LinePieces, p)
  \/ LogReplaced
  \/ PollStat
  \/ PollRead

TailSpec == Init /\ [][TailNext]_vars

\* C31: a run of quick_test whose compilation check is made and reports
\* errors ends with exit code 2 and inserts no row in any request table; a
\* run that inserts a test request has skipped the check or has made it
\* and got no errors reported.
C31_ErrorsStopTheSubmit ==
  /\ []((c_kind = "test" /\ c_check \in {"json", "text"})
          => (c_pc = "exited" /\ c_exit = 2))
  /\ [][(c_kind' = "test" /\ c_check' \in {"json", "text"})
          => c_count' = c_count]_vars
  /\ [][c_count'["test"] > c_count["test"]
          => c_check' \in {"skipped", "rc0", "empty", "timeout",
                           "raised"}]_vars

\* a run with a target whose check printed text that is no JSON has ended
\* with 2, after an earlier run had inserted a test request
C31_Witness ==
  /\ c_kind = "test"
  /\ c_check = "text"
  /\ c_args.cmd = "class"
  /\ c_exit = 2
  /\ c_count["test"] = 1

\* C39: when every result belongs to a request before clean_old_data, then
\* after it every result left belongs to a request that is left, and every
\* request left has the results it had.
C39_CleanKeepsLinks ==
  [][(/\ m_op'.op = "clean"
      /\ \A r \in r_rows : r.request_id \in DOMAIN t_rows)
       => (/\ \A r \in r_rows' : r.request_id \in DOMAIN t_rows'
           /\ \A r \in r_rows :
                 r.request_id \in DOMAIN t_rows' => r \in r_rows')]_vars

\* C40: every failed or errored test case of every examined result file
\* stands exactly once among the lines the failed command prints, and
\* nothing else is printed.
C40_EachFailureOnce ==
  /\ \A f \in 1..Len(x_files) : \A t \in 1..Len(x_files[f]) :
        (x_files[f] # Unparsed /\ x_files[f][t] \in {"Failed", "Error"})
          => Cardinality({k \in 1..Len(x_report) :
                            x_report[k] = << f, t >>}) = 1
  /\ \A k \in 1..Len(x_report) :
        /\ x_files[x_report[k][1]] # Unparsed
        /\ x_files[x_report[k][1]][x_report[k][2]] \in {"Failed", "Error"}

\* C38: no line of the session file is displayed more than once, and
\* every line before the position the monitor has reached is displayed.
C38_EachLineShownOnce ==
  /\ \A i \in 1..v_len :
        Cardinality({k \in 1..Len(v_shown) : v_shown[k] = i}) <= 1
  /\ \A i \in 1..v_last : \E k \in 1..Len(v_shown) : v_shown[k] = i

\* C32: when a call of process_new_content that read a refresh marker
\* returns, every stored error of a line before that marker is stale.
C32_MarkerStalesEarlierErrors ==
  [][(l_pc = "read" /\ l_pc' = "idle")
       => \A m \in (l_pos + 1)..l_pos' :
            f_log[m] = "M"
              => \A k \in 1..Len(e_rows') :
                   e_rows'[k].idx < m => e_rows'[k].stale]_vars

\* C33: once the monitor has read the file, an error line that stands
\* after a refresh marker, with the same error before the marker and not
\* between the marker and the line, has a row of its own; and two rows of
\* the same error come from lines with a refresh marker between them.
C33_StoredAgainAfterMarker ==
  (l_pc = "idle" /\ l_pos = Len(f_log))
    => /\ \A j \in 1..Len(f_log), m \in 1..Len(f_log), k \in 1..Len(f_log) :
            (/\ j < m /\ m < k
             /\ IsCompilationError(f_log[k])
             /\ f_log[j] = f_log[k]
             /\ IsRefreshMarker(f_log[m])
             /\ \A i \in (m + 1)..(k - 1) : f_log[i] # f_log[k])
              => \E r \in 1..Len(e_rows) :
                    e_rows[r].idx = k /\ e_rows[r].err = f_log[k]
       /\ \A a \in 1..Len(e_rows), b \in 1..Len(e_rows) :
            (a < b /\ e_rows[a].err = e_rows[b].err)
              => \E m \in (e_rows[a].idx + 1)..(e_rows[b].idx - 1) :
                    IsRefreshMarker(f_log[m])

\* C34: every row of compilation_errors has a batch_id.
C34_BatchIdNotNull ==
  \A k \in 1..Len(e_rows) : e_rows[k].batch # Null

\* C35: an error recognised more than 5 seconds after the error recognised
\* before it is not in the batch of that error.
C35_BatchByFiveSeconds ==
  \A k \in 2..Len(l_hits) :
    l_hits[k].at - l_hits[k - 1].at > BatchWindow * TicksPerSecond
      => l_hits[k].batch # l_hits[k - 1].batch

\* C36: after a poll of a file that replaced Editor.log, every whole
\* error line that the new file held at the stat of that poll has been
\* recognised.
C36_NewFileReadFromStart ==
  (l_pc = "idle" /\ f_gen > 0 /\ l_gen = f_gen)
    => \A k \in 1..l_size :
         f_log[k] \in {"E1", "E2"}
           => \E h \in 1..Len(l_hits) :
                 l_hits[h].gen = f_gen /\ l_hits[h].idx = k

\* C37: when the monitor has read a file that was never replaced up to
\* its end, every complete error line of the file, written in one piece
\* or in two, was recognised exactly once.
C37_EachErrorLineOnce ==
  (l_pc = "idle" /\ f_gen = 0 /\ l_pos = Len(f_log))
    => \A k \in 1..Len(f_log) :
         f_log[k] \in {"E1", "E2", "E1b"}
           => Cardinality({h \in 1..Len(l_hits) : l_hits[h].idx = k}) = 1

====
